---- MODULE Spec2Model ----
(***************************************************************************)
(* Model of MMRPredict.py: the MMRPredictor class (a preprocessing and     *)
(* model-fitting pipeline over one tabular dataset) and the module-level   *)
(* name `data` that split_data reads.                                      *)
(*                                                                         *)
(* A dataset (pandas DataFrame) is a function from column names to         *)
(* columns; a column is a sequence of cells, one per row.  A cell is a     *)
(* record [k, v]: k = "str" for a raw string (v is the rank of the string  *)
(* in alphabetical order), k = "int" for an integer (a raw number or a     *)
(* label code), k = "std" for a standardized value.                        *)
(***************************************************************************)
EXTENDS Integers, Sequences, FiniteSets, TLC

\* ------------------------------------------------------------------ bounds
MaxRows == 7
MaxPattern == 2
MaxSeed == 2

\* ------------------------------------------------- declared column lists
numerical_cols == <<"condition", "car_age", "mileage">>
categorical_cols ==
  <<"brand", "market_model", "body_type", "transmission", "state", "interior", "color">>
mmr == "mmr"
rest == <<"sellingprice", "value_retention", "price_status">>

Range(s) == {s[i] : i \in 1..Len(s)}

AllCols == Range(numerical_cols) \cup Range(categorical_cols) \cup {mmr} \cup Range(rest)

\* Position of a column in a declared list (0 when it is not in the list).
RECURSIVE PosFrom(_, _, _)
PosFrom(list, c, i) ==
  IF i > Len(list) THEN 0 ELSE IF list[i] = c THEN i ELSE PosFrom(list, c, i + 1)
Pos(list, c) == PosFrom(list, c, 1)

\* ------------------------------------------------------- exceptions raised
NoError == "none"
\* The four failures the class raises itself (all are ValueError in the source).
ConfigurationError == "ValueError: Unknown model type"
MissingColumnError == "ValueError: Column not found in DataFrame"
SequencingError == "ValueError: Categorical features must be encoded before normalization"
NotTrainedError == "ValueError: Model is not trained"
\* Failures raised by the interpreter or the libraries the class calls.
KeyError == "KeyError"
NameError == "NameError"
NotFittedError == "NotFittedError"
LibraryValueError == "ValueError (library)"
OSError == "OSError"

\* ---------------------------------------------------------- pandas pieces
StrCell(v) == [k |-> "str", v |-> v]
IntCell(v) == [k |-> "int", v |-> v]
StdCell(v) == [k |-> "std", v |-> v]

HasCols(frame, cols) == \A i \in 1..Len(cols) : cols[i] \in DOMAIN frame

NRows(frame) == IF DOMAIN frame = {} THEN 0 ELSE Len(frame[CHOOSE c \in DOMAIN frame : TRUE])

Restrict(frame, cols) == [c \in cols |-> frame[c]]

HasStrings(frame) == \E c \in DOMAIN frame : \E i \in 1..Len(frame[c]) : frame[c][i].k = "str"

\* Rows of a frame at the given positions, in that order (positional indexing).
Take(col, idx) == [j \in 1..Len(idx) |-> col[idx[j]]]
TakeRows(frame, idx) == [c \in DOMAIN frame |-> Take(frame[c], idx)]

\* Writing columns into a frame: df[cols] = values.
Assign(frame, values) ==
  [c \in DOMAIN frame \cup DOMAIN values |->
     IF c \in DOMAIN values THEN values[c] ELSE frame[c]]

\* --------------------------------------------------------- sklearn pieces
Abs(x) == IF x < 0 THEN -x ELSE x

RECURSIVE GCD(_, _)
GCD(a, b) == IF b = 0 THEN a ELSE GCD(b, a % b)

RECURSIVE SumSeq(_, _)
SumSeq(col, i) == IF i > Len(col) THEN 0 ELSE col[i].v + SumSeq(col, i + 1)

RECURSIVE GCDSeq(_, _)
GCDSeq(xs, i) == IF i > Len(xs) THEN 0 ELSE GCD(Abs(xs[i]), GCDSeq(xs, i + 1))

Min(S) == CHOOSE x \in S : \A y \in S : x <= y
Max(S) == CHOOSE x \in S : \A y \in S : x >= y

RECURSIVE SortedSeq(_)
SortedSeq(S) == IF S = {} THEN <<>> ELSE <<Min(S)>> \o SortedSeq(S \ {Min(S)})

\* An encoder or scaler attribute that holds None, and freshly constructed ones.
NoneEncoder == [none |-> TRUE, classes |-> <<>>]
LabelEncoder == [none |-> FALSE, classes |-> <<>>]
NoneScaler == [none |-> TRUE, fitted |-> FALSE, features |-> {}, n |-> 0]
StandardScaler == [none |-> FALSE, fitted |-> FALSE, features |-> {}, n |-> 0]

\* LabelEncoder.fit_transform(column): classes_ becomes the sorted distinct
\* values of this column (whatever the encoder held before is overwritten);
\* each value is replaced by its 0-based index in classes_.
LabelClasses(col) ==
  LET vals == SortedSeq({col[i].v : i \in 1..Len(col)})
  IN  [j \in 1..Len(vals) |-> [k |-> col[1].k, v |-> vals[j]]]

\* LabelEncoder.transform(value): the 0-based index of the value in classes_,
\* or -1 where the library raises "previously unseen labels".
EncoderTransform(enc, cell) ==
  IF \E j \in 1..Len(enc.classes) : enc.classes[j] = cell
  THEN (CHOOSE j \in 1..Len(enc.classes) : enc.classes[j] = cell) - 1
  ELSE -1

LabelFitTransform(col) ==
  LET enc == [none |-> FALSE, classes |-> LabelClasses(col)]
  IN  [encoder |-> enc,
       codes |-> [i \in 1..Len(col) |-> IntCell(EncoderTransform(enc, col[i]))]]

\* StandardScaler.fit_transform on one column: x |-> (x - mean) / std.  The
\* value kept is the centred value n*x - sum(x) reduced by the common divisor
\* of the column, i.e. the standardized value up to the positive factor that
\* the division by the standard deviation contributes; a constant column
\* becomes all zeros, as in the library.
Standardize(col) ==
  LET n == Len(col)
      s == SumSeq(col, 1)
      c == [i \in 1..n |-> n * col[i].v - s]
      g == GCDSeq(c, 1)
  IN  [i \in 1..n |-> StdCell(IF g = 0 THEN 0 ELSE c[i] \div g)]

ScalerFitTransform(frame) ==
  [scaler |-> [none |-> FALSE, fitted |-> TRUE, features |-> DOMAIN frame, n |-> NRows(frame)],
   values |-> [c \in DOMAIN frame |-> Standardize(frame[c])]]

\* ----------------------------------------------------- datasets (inputs)
\* The value of column c in row i of the pat-th test dataset.
CellFor(c, i, pat) ==
  IF Pos(categorical_cols, c) > 0
    THEN StrCell(((i * pat + Pos(categorical_cols, c)) % (pat + 1)) + 1)
  ELSE IF Pos(numerical_cols, c) > 0
    THEN IntCell(i * Pos(numerical_cols, c) + pat)
  ELSE IF c = mmr THEN IntCell(10 * pat + i)
  ELSE IF c = "price_status" THEN StrCell(1)
  ELSE IntCell(i + pat)

MakeData(n, pat, missing) ==
  [c \in AllCols \ missing |-> [i \in 1..n |-> CellFor(c, i, pat)]]

\* ----------------------------------------------------------- the predictor
\* The object's attributes as a record.
NoneModel == [kind |-> "None", params |-> <<>>, fitted |-> FALSE]

Obj(d, e, s, t, m) == [df |-> d, encoder |-> e, scaler |-> s, model_type |-> t, model |-> m]

Ok(o) == [o |-> o, err |-> NoError]
Raise(o, e) == [o |-> o, err |-> e]

SelectFeatures(o) ==
  LET cols == numerical_cols \o categorical_cols \o <<mmr>>
  IN  IF HasCols(o.df, cols)
        THEN Ok([o EXCEPT !.df = Restrict(o.df, Range(cols))])
        ELSE Raise(o, KeyError)

\* The loop of encode_categorical_features from the i-th categorical column on.
RECURSIVE EncodeFrom(_, _)
EncodeFrom(o, i) ==
  IF i > Len(categorical_cols) THEN Ok(o)
  ELSE LET col == categorical_cols[i]
       IN  IF col \notin DOMAIN o.df THEN Raise(o, KeyError)
           ELSE LET r == LabelFitTransform(o.df[col])
                    o2 == [o EXCEPT !.df = Assign(o.df, [c \in {col} |-> r.codes]),
                                    !.encoder = r.encoder]
                IN  IF col \notin DOMAIN o2.df THEN Raise(o2, MissingColumnError)
                    ELSE EncodeFrom(o2, i + 1)

EncodeCategoricalFeatures(o) == EncodeFrom([o EXCEPT !.encoder = LabelEncoder], 1)

\* A normalize_features that does not look at the encoder.
NormalizeFeatures_NoGuard(o) ==
  LET o1 == [o EXCEPT !.scaler = StandardScaler] IN
  IF ~HasCols(o1.df, numerical_cols \o categorical_cols) THEN Raise(o1, KeyError)
  ELSE IF HasStrings(Restrict(o1.df, Range(numerical_cols \o categorical_cols)))
    THEN Raise(o1, LibraryValueError)
  ELSE
    LET r == ScalerFitTransform(Restrict(o1.df, Range(numerical_cols \o categorical_cols)))
    IN  Ok([o1 EXCEPT !.df = Assign(o1.df, r.values), !.scaler = r.scaler])

NormalizeFeatures(o) ==
  IF o.encoder.none THEN Raise(o, SequencingError)
  ELSE
    LET o1 == [o EXCEPT !.scaler = StandardScaler] IN
    IF ~HasCols(o1.df, numerical_cols) THEN Raise(o1, KeyError)
    ELSE IF HasStrings(Restrict(o1.df, Range(numerical_cols))) THEN Raise(o1, LibraryValueError)
    ELSE
      LET r1 == ScalerFitTransform(Restrict(o1.df, Range(numerical_cols)))
          o2 == [o1 EXCEPT !.df = Assign(o1.df, r1.values), !.scaler = r1.scaler]
      IN
      IF ~HasCols(o2.df, categorical_cols) THEN Raise(o2, KeyError)
      ELSE IF HasStrings(Restrict(o2.df, Range(categorical_cols)))
        THEN Raise([o2 EXCEPT !.scaler = StandardScaler], LibraryValueError)
      ELSE
        LET r2 == ScalerFitTransform(Restrict(o2.df, Range(categorical_cols)))
        IN  Ok([o2 EXCEPT !.df = Assign(o2.df, r2.values), !.scaler = r2.scaler])

\* Files written so far are a set of paths; io says whether savefig can write.
DataViz == "dataviz"
CorrelationPng == "dataviz/correlation_matrix.png"
ImportancePng(mtype) == "dataviz/feature_importance_" \o mtype \o ".png"

\* df.corr() rejects a column of strings (pandas 2: numeric_only=False).
GenerateFeatureCorrelationMatrix(o, files, io) ==
  LET f1 == files \cup {DataViz}
  IN  IF HasStrings(o.df) THEN [o |-> o, err |-> LibraryValueError, fs |-> f1]
      ELSE IF io = "ok" THEN [o |-> o, err |-> NoError, fs |-> f1 \cup {CorrelationPng}]
      ELSE [o |-> o, err |-> OSError, fs |-> f1]

PreprocessData(o, files, io) ==
  LET r1 == SelectFeatures(o) IN
  IF r1.err # NoError THEN [o |-> r1.o, err |-> r1.err, fs |-> files] ELSE
  LET r2 == EncodeCategoricalFeatures(r1.o) IN
  IF r2.err # NoError THEN [o |-> r2.o, err |-> r2.err, fs |-> files] ELSE
  LET r3 == NormalizeFeatures(r2.o) IN
  IF r3.err # NoError THEN [o |-> r3.o, err |-> r3.err, fs |-> files] ELSE
  GenerateFeatureCorrelationMatrix(r3.o, files, io)

\* ------------------------------------------------------------- the models
\* Hyperparameters are integers: learning rates in hundredths, subsample in
\* tenths; Unset stands for None / a keyword the constructor call leaves out.
Unset == 0
RandomState == 42
TestPercent == 20
DefaultFolds == 5
SubsampleDefault == 10

ModelTypes == {"random_forest", "gradient_boosting"}

RandomForestRegressor ==
  [kind |-> "random_forest",
   params |-> [n_estimators |-> 100, max_depth |-> Unset, min_samples_split |-> 2,
               min_samples_leaf |-> 1, random_state |-> RandomState],
   fitted |-> FALSE]

XGBRegressor ==
  [kind |-> "gradient_boosting",
   params |-> [n_estimators |-> 100, learning_rate |-> 10, max_depth |-> 3,
               subsample |-> Unset, random_state |-> RandomState],
   fitted |-> FALSE]

\* An __init__ that falls back to a model instead of raising.
NewPredictor_AnySelector(d, mtype) ==
  LET o == Obj(d, NoneEncoder, NoneScaler, mtype, NoneModel)
  IN  IF mtype = "random_forest" THEN Ok([o EXCEPT !.model = RandomForestRegressor])
      ELSE Ok([o EXCEPT !.model = XGBRegressor])

\* __init__: the attributes after construction, or the error raised.
NewPredictor(d, mtype) ==
  LET o == Obj(d, NoneEncoder, NoneScaler, mtype, NoneModel)
  IN  IF mtype = "random_forest" THEN Ok([o EXCEPT !.model = RandomForestRegressor])
      ELSE IF mtype = "gradient_boosting" THEN Ok([o EXCEPT !.model = XGBRegressor])
      ELSE Raise(o, ConfigurationError)

\* A grid that leaves out the value the constructor gives n_estimators.
ParamGrid_NoDefault(mtype) ==
  IF mtype = "random_forest"
    THEN [n_estimators : {50, 200}, max_depth : {Unset, 10, 20, 30},
          min_samples_split : {2, 5, 10}, min_samples_leaf : {1, 2, 4}]
    ELSE [learning_rate : {1, 10, 30}, max_depth : {3, 5, 7},
          n_estimators : {50, 200}, subsample : {7, 10}]

\* The candidates of param_grid, one record per combination.
ParamGrid(mtype) ==
  IF mtype = "random_forest"
    THEN [n_estimators : {50, 100, 200}, max_depth : {Unset, 10, 20, 30},
          min_samples_split : {2, 5, 10}, min_samples_leaf : {1, 2, 4}]
    ELSE [learning_rate : {1, 10, 30}, max_depth : {3, 5, 7},
          n_estimators : {50, 100, 200}, subsample : {7, 10}]

\* A candidate of the search: the held estimator's parameters with the grid's
\* values set over them (clone + set_params).
WithParams(base, p) ==
  [k \in DOMAIN base \cup DOMAIN p |-> IF k \in DOMAIN p THEN p[k] ELSE base[k]]

\* The configuration a parameter record denotes: an unset subsample is the
\* library default 1.0.
Effective(params) ==
  [k \in DOMAIN params |->
     IF k = "subsample" /\ params[k] = Unset THEN SubsampleDefault ELSE params[k]]

\* The mean cross-validated score (negative RMSE, so never positive) of a
\* configuration.  Its value depends on the data through the folds: seed
\* selects the score table the data induce.  Each table has one optimum and
\* falls off with the distance from it; the optimum of table 1 is the
\* constructor's configuration and moves away from it as seed grows.
Step(k) ==
  CASE k = "n_estimators" -> 50
    [] k = "max_depth" -> 2
    [] k = "min_samples_split" -> 3
    [] k = "min_samples_leaf" -> 1
    [] k = "learning_rate" -> 10
    [] k = "subsample" -> -3
    [] OTHER -> 0

Defaults(kind) ==
  IF kind = "random_forest" THEN RandomForestRegressor.params ELSE XGBRegressor.params

Optimum(kind, seed, k) == Effective(Defaults(kind))[k] + Step(k) * (seed - 1)

RECURSIVE Distance(_, _, _, _)
Distance(kind, e, seed, keys) ==
  IF keys = {} THEN 0
  ELSE LET k == CHOOSE x \in keys : TRUE
       IN  Abs(e[k] - Optimum(kind, seed, k)) + Distance(kind, e, seed, keys \ {k})

CVScore(kind, params, seed) ==
  0 - Distance(kind, Effective(params), seed, DOMAIN params \ {"random_state"})

\* The grid points the search ranks first, for each model kind and score
\* table.  Every key of a grid is set on every candidate, so the ranking
\* does not depend on which of the grid's values the held estimator has.
BestPoints ==
  {[model_type |-> t, seed |-> s,
    point |-> LET top == Max({CVScore(t, WithParams(Defaults(t), p), s) : p \in ParamGrid(t)})
              IN  CHOOSE p \in ParamGrid(t) : CVScore(t, WithParams(Defaults(t), p), s) = top]
     : t \in ModelTypes, s \in 1..MaxSeed}

\* GridSearchCV(...).fit(X, y).best_estimator_: the best-scoring candidate,
\* refitted on all of X; ties go to one fixed candidate.
BestCandidate(est, mtype, seed) ==
  LET b == CHOOSE r \in BestPoints : r.model_type = mtype /\ r.seed = seed
  IN  WithParams(est.params, b.point)

Fit(est) == [est EXCEPT !.fitted = TRUE]

Train(o, X, y) ==
  IF HasStrings(X) \/ NRows(X) # Len(y) THEN Raise(o, LibraryValueError)
  ELSE Ok([o EXCEPT !.model = Fit(o.model)])

\* predict and evaluate leave the object alone: the result is [err, ret].
Predict(o, X) ==
  IF ~o.model.fitted THEN [err |-> NotFittedError, ret |-> [tag |-> "None"]]
  ELSE IF HasStrings(X) THEN [err |-> LibraryValueError, ret |-> [tag |-> "None"]]
  ELSE [err |-> NoError, ret |-> [tag |-> "predictions", n |-> NRows(X)]]

Evaluate(o, X, y) ==
  LET p == Predict(o, X)
  IN  IF p.err # NoError THEN p
      ELSE IF NRows(X) # Len(y) THEN [err |-> LibraryValueError, ret |-> [tag |-> "None"]]
      ELSE [err |-> NoError, ret |-> [tag |-> "metrics", params |-> o.model.params, n |-> Len(y)]]

OptimizeHyperparameters(o, X, y, cv, seed) ==
  IF HasStrings(X) \/ NRows(X) # Len(y) \/ cv < 2 \/ NRows(X) < cv
    THEN Raise(o, LibraryValueError)
    ELSE Ok([o EXCEPT !.model =
               [kind |-> o.model.kind,
                params |-> BestCandidate(o.model, o.model_type, seed),
                fitted |-> TRUE]])

\* train_test_split(X, y, test_size=0.2, random_state=42): the rows are
\* shuffled by a permutation that the seed and the row count determine; the
\* first ceil(0.2 n) shuffled rows are the test part, the rest the train part.
ShuffleKey(i) == (i * RandomState) % 11

RECURSIVE Shuffle(_)
Shuffle(S) ==
  IF S = {} THEN <<>>
  ELSE LET m == CHOOSE i \in S : \A j \in S : ShuffleKey(i) <= ShuffleKey(j)
       IN  <<m>> \o Shuffle(S \ {m})

TrainTestSplit(X, y) ==
  LET n == NRows(X)
      n_test == (n * TestPercent + 99) \div 100
      perm == Shuffle(1..n)
      test_idx == SubSeq(perm, 1, n_test)
      train_idx == SubSeq(perm, n_test + 1, n)
  IN  IF Len(y) # n \/ n - n_test = 0
        THEN [err |-> LibraryValueError, ret |-> [tag |-> "None"]]
        ELSE [err |-> NoError,
              ret |-> [tag |-> "split",
                       X_train |-> TakeRows(X, train_idx), X_test |-> TakeRows(X, test_idx),
                       y_train |-> Take(y, train_idx), y_test |-> Take(y, test_idx)]]

\* The module-level name `data`: unbound when the module is imported, bound
\* to the loaded frame when the file runs as a script.  Only its 'mmr' column
\* is ever read, and no method writes that column, so that column is kept.
Unbound == [bound |-> FALSE, frame |-> <<>>]
Bound(d) == [bound |-> TRUE, frame |-> Restrict(d, DOMAIN d \cap {mmr})]

SplitData(o, glob) ==
  IF mmr \notin DOMAIN o.df THEN [err |-> KeyError, ret |-> [tag |-> "None"]]
  ELSE IF ~glob.bound THEN [err |-> NameError, ret |-> [tag |-> "None"]]
  ELSE IF mmr \notin DOMAIN glob.frame THEN [err |-> KeyError, ret |-> [tag |-> "None"]]
  ELSE TrainTestSplit(Restrict(o.df, DOMAIN o.df \ {mmr}), glob.frame[mmr])

GenerateFeatureImportance(o, files, X, io) ==
  IF o.model = NoneModel THEN [o |-> o, err |-> NotTrainedError, fs |-> files]
  ELSE LET f1 == files \cup {DataViz}
       IN  IF ~o.model.fitted THEN [o |-> o, err |-> NotFittedError, fs |-> f1]
           ELSE IF io # "ok" THEN [o |-> o, err |-> OSError, fs |-> f1]
           ELSE [o |-> o, err |-> NoError, fs |-> f1 \cup {ImportancePng(o.model_type)}]

\* A method body that reports the metrics on the rows it trained on.
TrainEvaluateOptimizeCalls_EvaluateOnTrain ==
  << [op |-> "split_data", part |-> "none"],
     [op |-> "train", part |-> "train"],
     [op |-> "evaluate", part |-> "train"],
     [op |-> "optimize_hyperparameters", part |-> "train"],
     [op |-> "train", part |-> "train"],
     [op |-> "evaluate", part |-> "train"],
     [op |-> "generate_feature_importance", part |-> "train"] >>

\* train_evaluate_optimize: the calls the method makes, in order, each with
\* the part of the split it is handed.
TrainEvaluateOptimizeCalls ==
  << [op |-> "split_data", part |-> "none"],
     [op |-> "train", part |-> "train"],
     [op |-> "evaluate", part |-> "test"],
     [op |-> "optimize_hyperparameters", part |-> "train"],
     [op |-> "train", part |-> "train"],
     [op |-> "evaluate", part |-> "test"],
     [op |-> "generate_feature_importance", part |-> "train"] >>

\* One call of the method body.  st holds the object (o), the files (fs),
\* the value split_data returned (split) and the calls made so far (calls:
\* each with its arguments, the model held when it returned and its error).
PartX(split, part) == IF part = "train" THEN split.X_train ELSE split.X_test
PartY(split, part) == IF part = "train" THEN split.y_train ELSE split.y_test

Logged(st, c, args, o, e) ==
  Append(st.calls, [op |-> c.op, args |-> args, model |-> o.model, err |-> e])

CallStep(st, c, glob, seed, io) ==
  IF c.op = "split_data" THEN
    LET r == SplitData(st.o, glob)
    IN  [st EXCEPT !.split = r.ret, !.err = r.err, !.calls = Logged(st, c, <<>>, st.o, r.err)]
  ELSE
  LET X == PartX(st.split, c.part)
      y == PartY(st.split, c.part)
  IN
  IF c.op = "train" THEN
    LET r == Train(st.o, X, y)
    IN  [st EXCEPT !.o = r.o, !.err = r.err, !.calls = Logged(st, c, <<X, y>>, r.o, r.err)]
  ELSE IF c.op = "evaluate" THEN
    LET r == Evaluate(st.o, X, y)
    IN  [st EXCEPT !.err = r.err, !.calls = Logged(st, c, <<X, y>>, st.o, r.err)]
  ELSE IF c.op = "optimize_hyperparameters" THEN
    LET r == OptimizeHyperparameters(st.o, X, y, DefaultFolds, seed)
    IN  [st EXCEPT !.o = r.o, !.err = r.err, !.calls = Logged(st, c, <<X, y>>, r.o, r.err)]
  ELSE
    LET r == GenerateFeatureImportance(st.o, st.fs, X, io)
    IN  [st EXCEPT !.o = r.o, !.fs = r.fs, !.err = r.err,
                   !.calls = Logged(st, c, <<X>>, r.o, r.err)]

\* The calls from the i-th on; an exception ends the method.
RECURSIVE CallsFrom(_, _, _, _, _)
CallsFrom(st, i, glob, seed, io) ==
  IF i > Len(TrainEvaluateOptimizeCalls) \/ st.err # NoError THEN st
  ELSE CallsFrom(CallStep(st, TrainEvaluateOptimizeCalls[i], glob, seed, io),
                 i + 1, glob, seed, io)

TrainEvaluateOptimize(o, glob, files, seed, io) ==
  CallsFrom([o |-> o, fs |-> files, err |-> NoError, split |-> [tag |-> "None"],
             calls |-> <<>>], 1, glob, seed, io)

\* ------------------------------------------------------------------ state
VARIABLES
  alive,       \* an MMRPredictor has been constructed
  df, encoder, scaler, model_type, model,   \* its attributes
  data,        \* the module-level name `data`
  fs,          \* the paths that exist under the working directory
  lastOp,      \* the last method called
  err,         \* the exception it raised, or NoError
  ret,         \* the value it returned
  steps        \* the calls made by the last train_evaluate_optimize

vars == <<alive, df, encoder, scaler, model_type, model, data, fs, lastOp, err, ret, steps>>

Self == Obj(df, encoder, scaler, model_type, model)

\* Each action binds the method's result with \E r \in {...}: the method is
\* evaluated once and its result is what every primed variable is set from.
SetSelf(o) ==
  /\ df' = o.df
  /\ encoder' = o.encoder
  /\ scaler' = o.scaler
  /\ model_type' = o.model_type
  /\ model' = o.model

None == [tag |-> "None"]

Outcome(op, e, r) ==
  /\ lastOp' = op
  /\ err' = e
  /\ ret' = r
  /\ steps' = <<>>

\* ----------------------------------------------------------------- inputs
Selectors == ModelTypes \cup {"linear_regression"}
Patterns == 1..MaxPattern
\* Row counts: too few rows to split, too few to cross-validate, and enough
\* for the training part to hold DefaultFolds folds.
RowCounts == {1, 2, MaxRows}
FullDatasets == {MakeData(n, p, {}) : n \in RowCounts, p \in Patterns}
\* Datasets that lack at most one of the declared columns.
PartialDatasets ==
  {MakeData(n, p, m) : n \in 1..2, p \in Patterns,
                       m \in {{}} \cup {{c} : c \in AllCols \ Range(rest)}}
Folds == {2, DefaultFolds}
Seeds == 1..MaxSeed
IO == {"ok", "fail"}

\* What a caller passes as (X, y): one part of the split split_data returns.
Inputs ==
  LET s == SplitData(Self, data)
  IN  IF s.err = NoError
        THEN {[X |-> s.ret.X_train, y |-> s.ret.y_train],
              [X |-> s.ret.X_test, y |-> s.ret.y_test]}
        ELSE {}

\* ---------------------------------------------------------------- actions
InitObject ==
  /\ alive = FALSE
  /\ df = <<>>
  /\ encoder = NoneEncoder
  /\ scaler = NoneScaler
  /\ model_type = "None"
  /\ model = NoneModel
  /\ fs = {}
  /\ lastOp = "none"
  /\ err = NoError
  /\ ret = None
  /\ steps = <<>>

\* `data` is unbound, or bound to one of the frames a script loaded.
Init == InitObject /\ data \in {Unbound} \cup {Bound(MakeData(MaxRows, p, {})) : p \in Patterns}

InitPrep == InitObject /\ data = Unbound

Construct(d, t) ==
  \E r \in {NewPredictor(d, t)} :
  /\ ~alive
  /\ alive' = (r.err = NoError)
  /\ IF r.err = NoError THEN SetSelf(r.o)
     ELSE UNCHANGED <<df, encoder, scaler, model_type, model>>
  /\ Outcome("__init__", r.err, None)
  /\ UNCHANGED <<data, fs>>

select_features ==
  \E r \in {SelectFeatures(Self)} :
  /\ alive
  /\ SetSelf(r.o)
  /\ Outcome("select_features", r.err, None)
  /\ UNCHANGED <<alive, data, fs>>

encode_categorical_features ==
  \E r \in {EncodeCategoricalFeatures(Self)} :
  /\ alive
  /\ SetSelf(r.o)
  /\ Outcome("encode_categorical_features", r.err, None)
  /\ UNCHANGED <<alive, data, fs>>

normalize_features ==
  \E r \in {NormalizeFeatures(Self)} :
  /\ alive
  /\ SetSelf(r.o)
  /\ Outcome("normalize_features", r.err, None)
  /\ UNCHANGED <<alive, data, fs>>

generate_feature_correlation_matrix(io) ==
  \E r \in {GenerateFeatureCorrelationMatrix(Self, fs, io)} :
  /\ alive
  /\ SetSelf(r.o)
  /\ fs' = r.fs
  /\ Outcome("generate_feature_correlation_matrix", r.err, None)
  /\ UNCHANGED <<alive, data>>

preprocess_data(io) ==
  \E r \in {PreprocessData(Self, fs, io)} :
  /\ alive
  /\ SetSelf(r.o)
  /\ fs' = r.fs
  /\ Outcome("preprocess_data", r.err,
             IF r.err = NoError THEN [tag |-> "df", df |-> r.o.df] ELSE None)
  /\ UNCHANGED <<alive, data>>

split_data ==
  \E r \in {SplitData(Self, data)} :
  /\ alive
  /\ Outcome("split_data", r.err, r.ret)
  /\ UNCHANGED <<alive, df, encoder, scaler, model_type, model, data, fs>>

train(X, y) ==
  \E r \in {Train(Self, X, y)} :
  /\ alive
  /\ SetSelf(r.o)
  /\ Outcome("train", r.err, IF r.err = NoError THEN [tag |-> "self"] ELSE None)
  /\ UNCHANGED <<alive, data, fs>>

predict(X) ==
  \E r \in {Predict(Self, X)} :
  /\ alive
  /\ Outcome("predict", r.err, r.ret)
  /\ UNCHANGED <<alive, df, encoder, scaler, model_type, model, data, fs>>

evaluate(X, y) ==
  \E r \in {Evaluate(Self, X, y)} :
  /\ alive
  /\ Outcome("evaluate", r.err, r.ret)
  /\ UNCHANGED <<alive, df, encoder, scaler, model_type, model, data, fs>>

optimize_hyperparameters(X, y, cv, seed) ==
  \E r \in {OptimizeHyperparameters(Self, X, y, cv, seed)} :
  /\ alive
  /\ SetSelf(r.o)
  /\ Outcome("optimize_hyperparameters", r.err, None)
  /\ UNCHANGED <<alive, data, fs>>

train_evaluate_optimize(seed, io) ==
  \E r \in {TrainEvaluateOptimize(Self, data, fs, seed, io)} :
  /\ alive
  /\ SetSelf(r.o)
  /\ fs' = r.fs
  /\ lastOp' = "train_evaluate_optimize"
  /\ err' = r.err
  /\ ret' = None
  /\ steps' = r.calls
  /\ UNCHANGED <<alive, data>>

generate_feature_importance(X, io) ==
  \E r \in {GenerateFeatureImportance(Self, fs, X, io)} :
  /\ alive
  /\ SetSelf(r.o)
  /\ fs' = r.fs
  /\ Outcome("generate_feature_importance", r.err, None)
  /\ UNCHANGED <<alive, data>>

\* The whole class, on datasets that hold every declared column.
Next ==
  \/ \E d \in FullDatasets, t \in Selectors : Construct(d, t)
  \/ \E io \in IO : preprocess_data(io)
  \/ split_data
  \/ \E a \in Inputs : train(a.X, a.y)
  \/ \E a \in Inputs : predict(a.X)
  \/ \E a \in Inputs : evaluate(a.X, a.y)
  \/ \E a \in Inputs, cv \in Folds, seed \in Seeds : optimize_hyperparameters(a.X, a.y, cv, seed)
  \/ \E seed \in Seeds, io \in IO : train_evaluate_optimize(seed, io)
  \/ \E a \in Inputs, io \in IO : generate_feature_importance(a.X, io)

Spec == Init /\ [][Next]_vars

\* The preprocessing methods, on datasets that may lack a declared column.
NextPrep ==
  \/ \E d \in PartialDatasets, t \in Selectors : Construct(d, t)
  \/ select_features
  \/ encode_categorical_features
  \/ normalize_features
  \/ \E io \in IO : generate_feature_correlation_matrix(io)
  \/ \E io \in IO : preprocess_data(io)

SpecPrep == InitPrep /\ [][NextPrep]_vars

\* ----------------------------------------------------------------- claims
\* C1: constructing with 'random_forest' or 'gradient_boosting' succeeds and
\* leaves an untrained model with that kind's default hyperparameters; any
\* other selector raises the unknown-model-type error and no object exists.
C1_Construction ==
  [][\A d \in FullDatasets, t \in Selectors :
       Construct(d, t) =>
         IF t = "random_forest" THEN
           /\ alive' /\ err' = NoError /\ df' = d /\ model_type' = t
           /\ model' = [kind |-> "random_forest", fitted |-> FALSE,
                        params |-> [n_estimators |-> 100, max_depth |-> Unset,
                                    min_samples_split |-> 2, min_samples_leaf |-> 1,
                                    random_state |-> 42]]
         ELSE IF t = "gradient_boosting" THEN
           /\ alive' /\ err' = NoError /\ df' = d /\ model_type' = t
           /\ model' = [kind |-> "gradient_boosting", fitted |-> FALSE,
                        params |-> [n_estimators |-> 100, learning_rate |-> 10,
                                    max_depth |-> 3, subsample |-> Unset,
                                    random_state |-> 42]]
         ELSE ~alive' /\ err' = ConfigurationError /\ model' = NoneModel]_vars

C1_Witness ==
  /\ lastOp = "__init__" /\ err = NoError /\ alive
  /\ model.kind = "gradient_boosting" /\ ~model.fitted

\* C2: normalize_features on an object on which encode_categorical_features
\* has not been called raises the sequencing error and leaves the dataset and
\* the scaler as they were; after encode_categorical_features has run on a
\* dataset that holds every declared column it raises nothing.  The encoder
\* is what records that encode_categorical_features was called: only that
\* method (alone or inside preprocess_data) sets it, it always does, and
\* nothing unsets it.
DeclaredCols == Range(numerical_cols) \cup Range(categorical_cols) \cup {mmr}

C2_NormalizeAfterEncode ==
  [][/\ (encoder.none /\ ~encoder'.none) =>
          lastOp' \in {"encode_categorical_features", "preprocess_data"}
     /\ lastOp' = "encode_categorical_features" => ~encoder'.none
     /\ (alive /\ ~encoder.none) => ~encoder'.none
     /\ (lastOp' = "normalize_features" /\ encoder.none) =>
          /\ err' = SequencingError
          /\ df' = df
          /\ scaler' = scaler
     /\ (lastOp' = "normalize_features" /\ ~encoder.none /\ DeclaredCols \subseteq DOMAIN df) =>
          err' = NoError]_vars

C2_Witness ==
  /\ lastOp = "normalize_features" /\ err = SequencingError
  /\ encoder.none /\ scaler = NoneScaler
  /\ DeclaredCols \subseteq DOMAIN df

\* C3: generate_feature_importance on a model that was never trained raises
\* the model-is-not-trained error before anything is written.
C3_NotTrained ==
  [][(lastOp' = "generate_feature_importance" /\ ~model.fitted) =>
       (err' = NotTrainedError /\ fs' = fs)]_vars

\* C4: encode_categorical_features raises the column-not-found error of its
\* own check whenever a declared categorical column is absent.
C4_MissingColumn ==
  (lastOp = "encode_categorical_features" /\ ~(Range(categorical_cols) \subseteq DOMAIN df))
    => err = MissingColumnError

\* C5: what split_data returns is determined by the object's own dataset:
\* the targets are the 'mmr' column of self.df for the rows returned as
\* features, whatever else the program holds.
C5_SplitOwnData ==
  lastOp = "split_data" =>
    LET own == SplitData(Self, Bound(df))
    IN  err = own.err /\ ret = own.ret

\* C6: optimize_hyperparameters installs the best-scoring candidate of the
\* model kind's grid, fitted, and its cross-validated score is never below
\* the score of the model held before the call.  TopScore is the best score
\* any candidate of a grid reaches under a score table; the table of a call
\* is one under which the installed model reaches it.
TopScore ==
  [t \in ModelTypes, s \in Seeds |->
     Max({CVScore(t, WithParams(Defaults(t), q), s) : q \in ParamGrid(t)})]

C6_OptimizeNeverWorse ==
  [][(lastOp' = "optimize_hyperparameters" /\ err' = NoError) =>
       /\ model'.fitted /\ model'.kind = model.kind
       /\ \E p \in ParamGrid(model_type) : model'.params = WithParams(model.params, p)
       /\ \E seed \in Seeds :
            CVScore(model.kind, model'.params, seed) = TopScore[model_type, seed]
       /\ \A seed \in Seeds :
            CVScore(model.kind, model'.params, seed) = TopScore[model_type, seed] =>
              CVScore(model.kind, model'.params, seed)
                >= CVScore(model.kind, model.params, seed)]_vars

C6_Witness ==
  /\ lastOp = "optimize_hyperparameters" /\ err = NoError /\ model.fitted
  /\ Effective(model.params) # Effective(Defaults(model.kind))

\* C7: after encode_categorical_features completes, the retained encoder maps
\* the raw values of every categorical column to the codes written into the
\* dataset for that column.
C7_EncoderCoversEveryColumn ==
  [][(lastOp' = "encode_categorical_features" /\ err' = NoError) =>
       \A c \in Range(categorical_cols) : \A i \in 1..Len(df[c]) :
         df[c][i].k = "str" => EncoderTransform(encoder', df[c][i]) = df'[c][i].v]_vars

\* C8: the calls train_evaluate_optimize makes are, in order, split_data,
\* train, evaluate, optimize_hyperparameters, train, evaluate,
\* generate_feature_importance, each made once unless an earlier one raised;
\* train and optimize_hyperparameters get the train part of the one split,
\* evaluate its test part, and the second evaluate sees the model that
\* optimize_hyperparameters installed.
C8_StepOrder ==
  lastOp = "train_evaluate_optimize" =>
    LET order == <<"split_data", "train", "evaluate", "optimize_hyperparameters",
                   "train", "evaluate", "generate_feature_importance">>
        s == SplitData(Self, data).ret
        n == Len(steps)
    IN  /\ n \in 1..7
        /\ \A i \in 1..n : steps[i].op = order[i] /\ (i < n => steps[i].err = NoError)
        /\ steps[n].err = err
        /\ err = NoError => n = 7
        /\ \A i \in 2..n :
             steps[i].args =
               IF i \in {2, 4, 5} THEN <<s.X_train, s.y_train>>
               ELSE IF i \in {3, 6} THEN <<s.X_test, s.y_test>>
               ELSE <<s.X_train>>
        /\ n >= 6 =>
             /\ steps[6].model.params = steps[4].model.params
             /\ steps[6].model.fitted
             /\ steps[6].model = model

C8_Witness ==
  /\ lastOp = "train_evaluate_optimize" /\ err = NoError /\ Len(steps) = 7
  /\ steps[6].model.params # steps[3].model.params

\* C9: preprocess_data returns the selected, encoded and normalized dataset
\* even when the heatmap file cannot be written.
Normalized(frame) ==
  /\ DOMAIN frame = DeclaredCols
  /\ \A c \in Range(numerical_cols) \cup Range(categorical_cols) :
       \A i \in 1..Len(frame[c]) : frame[c][i].k = "std"

C9_HeatmapBestEffort ==
  (lastOp = "preprocess_data" /\ Normalized(df)) =>
    (err = NoError /\ ret = [tag |-> "df", df |-> df])

\* C10: the encoder is set only if every declared categorical column of the
\* dataset has been integer-coded.
C10_EncoderImpliesEncoded ==
  ~encoder.none =>
    \A c \in Range(categorical_cols) :
      c \in DOMAIN df /\ \A i \in 1..Len(df[c]) : df[c][i].k # "str"

====
